---------------------------- MODULE Spec2Model ----------------------------
(***************************************************************************)
(* Model of src/main.py: the Myfxbook ROI reporter.                        *)
(*                                                                         *)
(* main() logs in, picks an account, fetches the daily gains of the        *)
(* periods day / week / month, compounds them, composes a report and sends *)
(* it through Telegram; any exception outside the per-period guard takes   *)
(* the fatal path, and the session is released in the finally clause.      *)
(*                                                                         *)
(* Python floats are modelled as exact rationals in lowest terms, so the   *)
(* arithmetic laws are checked without binary rounding.  Line 187 of the   *)
(* source (results = {}) is read as a statement of the try block at the    *)
(* indentation of its neighbours.                                          *)
(***************************************************************************)
EXTENDS Integers, Sequences, FiniteSets, TLC

VARIABLES
    pc,          \* position of the run inside main() (or of a function call)
    env,         \* module-level configuration read from the environment
    today,       \* now_vn().date()
    session,     \* main: session
    accounts,    \* main: accounts
    acc_id,      \* main: acc_id
    acc_meta,    \* main: acc_meta
    roi_all,     \* main: roi_all
    rg,          \* main: rg
    results,     \* main: results
    rows,        \* main: rows (of the current loop iteration)
    roi_simple,  \* main: roi_simple
    roi_comp,    \* main: roi_comp
    msg,         \* main: lines / msg
    exc,         \* the exception that left the try block, if any
    it,          \* main: position of the for loop in rg.items()
    raising,     \* the exception propagating out of the except clause, if any
    exitStatus,  \* exit status of the process once it has ended (-1: running)
    replies,     \* history: what the provider answered for each period
    calls,       \* history: the calls main() made, in order
    http         \* history: the HTTP requests actually issued, in order

vars == <<pc, env, today, session, accounts, acc_id, acc_meta, roi_all, rg,
          results, rows, roi_simple, roi_comp, msg, exc, it, raising,
          exitStatus, replies, calls, http>>

---------------------------------------------------------------------------
(* Bounds of the model *)

\* longest list of daily-gain rows given to the sum functions
MaxRows == 3
\* first calendar year of the dates tried
FirstYear == 2023
\* number of calendar years of dates tried
NumYears == 3

---------------------------------------------------------------------------
(* Python floats as exact rationals n/d in lowest terms, d > 0 *)

Abs(x) == IF x < 0 THEN -x ELSE x

RECURSIVE GCD(_, _)
GCD(a, b) == IF b = 0 THEN a ELSE GCD(b, a % b)

Norm(n, d) == LET g == GCD(Abs(n), d) IN [n |-> n \div g, d |-> d \div g]

Flt(k) == [n |-> k, d |-> 1]

FAdd(a, b) == Norm(a.n * b.d + b.n * a.d, a.d * b.d)

FMul(a, b) == Norm(a.n * b.n, a.d * b.d)

FDiv100(a) == Norm(a.n, a.d * 100)

---------------------------------------------------------------------------
(* JSON values as the provider returns them *)

Absent == [t |-> "absent", v |-> 0]   \* the key is not in the dict
Null   == [t |-> "null", v |-> 0]     \* JSON null / Python None
Text   == [t |-> "text", v |-> 0]     \* a string that is not a number
Num(k) == [t |-> "num", v |-> k]      \* a JSON number

\* float(x): the value, or an exception (TypeError for None, ValueError
\* for a non-numeric string)
ToFloat(x) ==
    IF x.t = "num" THEN [ok |-> TRUE, v |-> Flt(x.v)]
    ELSE [ok |-> FALSE, v |-> Flt(0)]

\* A row of the daily-gain list: a dict with optional keys "value" and
\* "gain", or (isdict = FALSE) something that is no dict at all
Row(value, gain) == [isdict |-> TRUE, value |-> value, gain |-> gain]
NotADict == [isdict |-> FALSE, value |-> Absent, gain |-> Absent]

\* try: v = float(r.get("value") if "value" in r else r.get("gain", 0.0))
\* except Exception: v = 0.0
RowPct(r) ==
    IF ~r.isdict THEN Flt(0)
    ELSE IF r.value.t # "absent"
         THEN (IF ToFloat(r.value).ok THEN ToFloat(r.value).v ELSE Flt(0))
    ELSE IF r.gain.t = "absent" THEN Flt(0)
    ELSE (IF ToFloat(r.gain).ok THEN ToFloat(r.gain).v ELSE Flt(0))

RECURSIVE SimpleLoop(_, _, _)
SimpleLoop(rs, i, s) ==
    IF i > Len(rs) THEN s
    ELSE SimpleLoop(rs, i + 1, FAdd(s, RowPct(rs[i])))

sum_simple_pct(rs) == SimpleLoop(rs, 1, Flt(0))

RECURSIVE CompoundLoop(_, _, _)
CompoundLoop(rs, i, acc) ==
    IF i > Len(rs) THEN acc
    ELSE CompoundLoop(rs, i + 1,
                      FMul(acc, FAdd(Flt(1), FDiv100(RowPct(rs[i])))))

\* variant: the growth factors are added up instead of multiplied
SumCompoundAdditive(rs) == sum_simple_pct(rs)

sum_compound_pct(rs) ==
    FMul(FAdd(CompoundLoop(rs, 1, Flt(1)), Flt(-1)), Flt(100))

---------------------------------------------------------------------------
(* fmt_pct *)

Pad2(k) == IF k < 10 THEN "0" \o ToString(k) ELSE ToString(k)

\* |x| in hundredths, rounded to the nearest (ties to even)
Hundredths(x) ==
    LET a == Abs(x.n) * 100
        q == a \div x.d
        r == a % x.d
    IN  IF 2 * r > x.d \/ (2 * r = x.d /\ q % 2 = 1) THEN q + 1 ELSE q

NoneF == [some |-> FALSE, v |-> Flt(0)]
SomeF(x) == [some |-> TRUE, v |-> x]

\* f"{float(x):+.2f}%", or "N/A" when float(x) raises (x is None)
fmt_pct(x) ==
    IF ~x.some THEN "N/A"
    ELSE LET h == Hundredths(x.v)
         IN  (IF x.v.n < 0 THEN "-" ELSE "+")
             \o ToString(h \div 100) \o "." \o Pad2(h % 100) \o "%"

---------------------------------------------------------------------------
(* Calendar dates (datetime.date) *)

Years == (FirstYear - 1) .. (FirstYear + NumYears)

IsLeap(y) == y % 4 = 0 /\ (y % 100 # 0 \/ y % 400 = 0)

DaysInMonth(y, m) ==
    IF m = 2 THEN (IF IsLeap(y) THEN 29 ELSE 28)
    ELSE IF m \in {4, 6, 9, 11} THEN 30 ELSE 31

DaysBeforeYear(y) ==
    (y - 1) * 365 + (y - 1) \div 4 - (y - 1) \div 100 + (y - 1) \div 400

RECURSIVE DaysBeforeMonth(_, _)
DaysBeforeMonth(y, m) ==
    IF m = 1 THEN 0 ELSE DaysBeforeMonth(y, m - 1) + DaysInMonth(y, m - 1)

Date(y, m, d) == [year |-> y, month |-> m, day |-> d]

\* date.toordinal()
ToOrdinal(dt) == DaysBeforeYear(dt.year) + DaysBeforeMonth(dt.year, dt.month) + dt.day

\* date.fromordinal(n)
FromOrdinal(n) ==
    LET y == CHOOSE yy \in Years :
                 DaysBeforeYear(yy) < n /\ n <= DaysBeforeYear(yy + 1)
        k == n - DaysBeforeYear(y)
        m == CHOOSE mm \in 1..12 :
                 DaysBeforeMonth(y, mm) < k
                 /\ k <= DaysBeforeMonth(y, mm) + DaysInMonth(y, mm)
    IN  Date(y, m, k - DaysBeforeMonth(y, m))

\* date.weekday(): Monday = 0 .. Sunday = 6
Weekday(dt) == (ToOrdinal(dt) + 6) % 7

\* dd = lambda d: d.strftime("%Y-%m-%d")
dd(dt) == ToString(dt.year) \o "-" \o Pad2(dt.month) \o "-" \o Pad2(dt.day)

\* the keys of the dict literal, in insertion order
PeriodKeys == <<"day", "week", "month">>

\* variant: the week is counted from isoweekday() (Monday = 1)
RangesIsoWeekday(now) ==
    LET start_week  == FromOrdinal(ToOrdinal(now) - (Weekday(now) + 1))
        start_month == [now EXCEPT !.day = 1]
    IN  [k \in {"day", "week", "month"} |->
            CASE k = "day"   -> <<dd(now), dd(now)>>
              [] k = "week"  -> <<dd(start_week), dd(now)>>
              [] k = "month" -> <<dd(start_month), dd(now)>>]

ranges_today_week_month(now) ==
    LET start_week  == FromOrdinal(ToOrdinal(now) - Weekday(now))
        start_month == [now EXCEPT !.day = 1]
    IN  [k \in {"day", "week", "month"} |->
            CASE k = "day"   -> <<dd(now), dd(now)>>
              [] k = "week"  -> <<dd(start_week), dd(now)>>
              [] k = "month" -> <<dd(start_month), dd(now)>>]

\* the dates now_vn().date() is drawn from
Dates ==
    {Date(y, m, d) : y \in FirstYear .. (FirstYear + NumYears - 1),
                     m \in 1..12, d \in 1..31} \
    {dt \in {Date(y, m, d) : y \in FirstYear .. (FirstYear + NumYears - 1),
                             m \in 1..12, d \in 29..31} :
        dt.day > DaysInMonth(dt.year, dt.month)}

---------------------------------------------------------------------------
(* The environment and the provider's possible answers *)

\* EMAIL, PASSWORD, PREF_ACC_ID, BOT_TOKEN, CHAT_ID ("" when unset)
Envs ==
    {[EMAIL |-> c[1], PASSWORD |-> c[2], PREF_ACC_ID |-> p,
      BOT_TOKEN |-> t[1], CHAT_ID |-> t[2]] :
        c \in {<<"e", "p">>, <<"", "p">>, <<"e", "">>},
        p \in {"", "A2", "ZZ"},
        t \in {<<"b", "c">>, <<"", "c">>, <<"b", "">>}}

TITLE_PREFIX == "TRADE GOODS"

NoneS == "<None>"

\* login.json: the request fails (http_get raises), or a JSON object with
\* "error" and possibly "session"
LoginReplies ==
    {[http_ok |-> FALSE, error |-> FALSE, session |-> NoneS],
     [http_ok |-> TRUE, error |-> TRUE, session |-> NoneS],
     [http_ok |-> TRUE, error |-> FALSE, session |-> NoneS],
     [http_ok |-> TRUE, error |-> FALSE, session |-> "S1"]}

Account(id, gain) ==
    [id |-> id, name |-> "acc-" \o id, broker |-> "brk", gain |-> gain]

NoAccount == Account("", Absent)

AccountLists ==
    {<< >>,
     <<Account("A1", Num(5))>>,
     <<Account("A1", Num(0)), Account("A2", Num(-3))>>,
     <<Account("A1", Absent)>>,
     <<Account("A1", Text), Account("A2", Null)>>}

\* get-my-accounts.json
AccountsReplies ==
    {[http_ok |-> FALSE, error |-> FALSE, is_list |-> FALSE, accounts |-> << >>],
     [http_ok |-> TRUE, error |-> TRUE, is_list |-> FALSE, accounts |-> << >>],
     [http_ok |-> TRUE, error |-> FALSE, is_list |-> FALSE, accounts |-> << >>]}
    \cup {[http_ok |-> TRUE, error |-> FALSE, is_list |-> TRUE, accounts |-> a] :
             a \in AccountLists}

\* lists of daily-gain rows the provider answers with in a run of main()
RunRowLists ==
    {<< >>,
     <<Row(Num(1), Absent), Row(Num(1), Absent)>>,
     <<Row(Text, Absent), Row(Absent, Absent)>>,
     <<Row(Absent, Num(-2))>>}

\* get-daily-gain.json: "dailyGain" or "data" may hold the list
GainReplies ==
    {[http_ok |-> FALSE, error |-> FALSE, key |-> "", list |-> << >>],
     [http_ok |-> TRUE, error |-> TRUE, key |-> "", list |-> << >>],
     [http_ok |-> TRUE, error |-> FALSE, key |-> "", list |-> << >>],
     [http_ok |-> TRUE, error |-> FALSE, key |-> "data",
      list |-> <<Row(Num(2), Absent)>>]}
    \cup {[http_ok |-> TRUE, error |-> FALSE, key |-> "dailyGain", list |-> l] :
             l \in RunRowLists}

\* outcome of requests.post + raise_for_status in telegram_send
PostOutcomes == {"ok", "network_error", "bad_status", "timeout"}

---------------------------------------------------------------------------
(* The functions main() calls *)

Call(fn, arg, ok) == [fn |-> fn, arg |-> arg, ok |-> ok]
Req(url, arg, ok) == [url |-> url, arg |-> arg, ok |-> ok]

\* myfx_login: raises before any request when a credential is missing
myfx_login(e, reply) ==
    IF e.EMAIL = "" \/ e.PASSWORD = ""
    THEN [requested |-> FALSE, raised |-> TRUE, session |-> NoneS]
    ELSE IF reply.http_ok /\ ~reply.error /\ reply.session # NoneS
    THEN [requested |-> TRUE, raised |-> FALSE, session |-> reply.session]
    ELSE [requested |-> TRUE, raised |-> TRUE, session |-> NoneS]

myfx_get_accounts(reply) ==
    IF reply.http_ok /\ ~reply.error /\ reply.is_list
    THEN [raised |-> FALSE, accounts |-> reply.accounts]
    ELSE [raised |-> TRUE, accounts |-> << >>]

pick_account(accs, pref) ==
    LET hits == {i \in 1..Len(accs) : accs[i].id = pref}
    IN  IF pref # "" /\ hits # {}
        THEN LET i == CHOOSE j \in hits : \A h \in hits : j <= h
             IN  [raised |-> FALSE, id |-> accs[i].id, meta |-> accs[i]]
        ELSE IF Len(accs) = 0
        THEN [raised |-> TRUE, id |-> "", meta |-> NoAccount]
        ELSE [raised |-> FALSE, id |-> accs[1].id, meta |-> accs[1]]

myfx_daily_gain(reply) ==
    IF reply.http_ok /\ ~reply.error /\ reply.key \in {"dailyGain", "data"}
    THEN [raised |-> FALSE, rows |-> reply.list]
    ELSE [raised |-> TRUE, rows |-> << >>]

\* variant: the POST is not wrapped in try/except
TelegramSendUnguarded(e, outcome) ==
    IF e.BOT_TOKEN = "" \/ e.CHAT_ID = ""
    THEN [posted |-> FALSE, raised |-> FALSE, log |-> "skipped"]
    ELSE [posted |-> TRUE, raised |-> outcome # "ok",
          log |-> IF outcome = "ok" THEN "sent" ELSE ""]

\* telegram_send: a no-op without BOT_TOKEN or CHAT_ID; otherwise one POST
\* whose failure is caught and logged
telegram_send(e, outcome) ==
    IF e.BOT_TOKEN = "" \/ e.CHAT_ID = ""
    THEN [posted |-> FALSE, raised |-> FALSE, log |-> "skipped"]
    ELSE [posted |-> TRUE, raised |-> FALSE,
          log |-> IF outcome = "ok" THEN "sent" ELSE "Telegram error"]

\* roi_all = float(acc_meta.get("gain")), None when float() raises
RoiAll(meta) ==
    IF ToFloat(IF meta.gain.t = "absent" THEN Null ELSE meta.gain).ok
    THEN SomeF(ToFloat(meta.gain).v)
    ELSE NoneF

NoResult == [none |-> TRUE, simple |-> Flt(0), compound |-> Flt(0), n |-> 0]

\* results.get(key)
Get(res, key) == IF key \in DOMAIN res THEN res[key] ELSE NoResult

\* pick(v) of main
pick(v) == IF v.none THEN "N/A" ELSE fmt_pct(SomeF(v.compound))

\* variant: the All line tests "if roi_all" instead of "is not None"
AllTextTruthy(x) == IF x.some /\ x.v.n # 0 THEN fmt_pct(x) ELSE "N/A"

\* the All line: fmt_pct(roi_all) if roi_all is not None else "N/A"
AllText(x) == IF x.some THEN fmt_pct(x) ELSE "N/A"

Line(label, text) == [label |-> label, text |-> text]

\* variant: the period lines are appended in another order
ReportLinesWeekFirst(meta, id, now, res, all) ==
    <<Line(TITLE_PREFIX, ""),
      Line("ROI (Myfxbook)", ""),
      Line("Account", meta.name \o " | ID: " \o id \o " | Broker: " \o meta.broker),
      Line("Time", dd(now)),
      Line("", ""),
      Line("Week", pick(Get(res, "week"))),
      Line("Day", pick(Get(res, "day"))),
      Line("Month", pick(Get(res, "month"))),
      Line("All", AllText(all))>>

\* lines 203-217
ReportLines(meta, id, now, res, all) ==
    <<Line(TITLE_PREFIX, ""),
      Line("ROI (Myfxbook)", ""),
      Line("Account", meta.name \o " | ID: " \o id \o " | Broker: " \o meta.broker),
      Line("Time", dd(now)),
      Line("", ""),
      Line("Day", pick(Get(res, "day"))),
      Line("Week", pick(Get(res, "week"))),
      Line("Month", pick(Get(res, "month"))),
      Line("All", AllText(all))>>

\* truth value of "if session:"
Truthy(s) == s # NoneS /\ s # ""

---------------------------------------------------------------------------
(* main() *)

Blank ==
    /\ session = NoneS
    /\ accounts = << >>
    /\ acc_id = ""
    /\ acc_meta = NoAccount
    /\ roi_all = NoneF
    /\ rg = << >>
    /\ results = << >>
    /\ rows = << >>
    /\ roi_simple = Flt(0)
    /\ roi_comp = Flt(0)
    /\ msg = << >>
    /\ exc = ""
    /\ it = 1
    /\ raising = ""
    /\ exitStatus = -1
    /\ replies = << >>
    /\ calls = << >>
    /\ http = << >>

\* the date of the run
RunDates == {Date(FirstYear + 1, 1, 3)}

Init ==
    /\ pc = "login"
    /\ env \in Envs
    /\ today \in RunDates
    /\ Blank

\* line 171
Login ==
    /\ pc = "login"
    /\ \E reply \in LoginReplies :
         LET r == myfx_login(env, reply) IN
         /\ session' = r.session
         /\ calls' = Append(calls, Call("myfx_login", "", ~r.raised))
         /\ http' = IF r.requested
                    THEN Append(http, Req("login.json", "", reply.http_ok))
                    ELSE http
         /\ exc' = IF r.raised THEN "login" ELSE exc
         /\ pc' = IF r.raised THEN "except" ELSE "accounts"
    /\ UNCHANGED <<env, today, accounts, acc_id, acc_meta, roi_all, rg, results,
                   rows, roi_simple, roi_comp, msg, it, raising, exitStatus,
                   replies>>

\* line 173
GetAccounts ==
    /\ pc = "accounts"
    /\ \E reply \in AccountsReplies :
         LET r == myfx_get_accounts(reply) IN
         /\ accounts' = r.accounts
         /\ calls' = Append(calls, Call("myfx_get_accounts", "", ~r.raised))
         /\ http' = Append(http, Req("get-my-accounts.json", "", reply.http_ok))
         /\ exc' = IF r.raised THEN "accounts" ELSE exc
         /\ pc' = IF r.raised THEN "except" ELSE "pick"
    /\ UNCHANGED <<env, today, session, acc_id, acc_meta, roi_all, rg, results,
                   rows, roi_simple, roi_comp, msg, it, raising, exitStatus,
                   replies>>

\* lines 174-187
PickAccount ==
    /\ pc = "pick"
    /\ LET r == pick_account(accounts, env.PREF_ACC_ID) IN
         /\ calls' = Append(calls, Call("pick_account", "", ~r.raised))
         /\ IF r.raised
            THEN /\ exc' = "pick"
                 /\ pc' = "except"
                 /\ UNCHANGED <<acc_id, acc_meta, roi_all, rg>>
            ELSE /\ acc_id' = r.id
                 /\ acc_meta' = r.meta
                 /\ roi_all' = RoiAll(r.meta)
                 /\ rg' = ranges_today_week_month(today)
                 /\ pc' = "loop"
                 /\ exc' = exc
    /\ UNCHANGED <<env, today, session, accounts, results, rows, roi_simple,
                   roi_comp, msg, it, raising, exitStatus, replies, http>>

\* variant: the fetch is not guarded, its exception leaves the loop
AfterFetchUnguarded(raised, i) ==
    IF raised THEN "except"
    ELSE IF i = Len(PeriodKeys) THEN "compose" ELSE "loop"

\* lines 197-200: the exception of a fetch is logged and swallowed, and the
\* loop goes on with the next key
AfterFetch(raised, i) == IF i = Len(PeriodKeys) THEN "compose" ELSE "loop"

\* lines 189-200: one iteration of the for loop
FetchPeriod ==
    /\ pc = "loop"
    /\ it <= Len(PeriodKeys)
    /\ LET key == PeriodKeys[it] IN
       \E reply \in GainReplies :
         LET r == myfx_daily_gain(reply) IN
         /\ calls' = Append(calls, Call("myfx_daily_gain", key, ~r.raised))
         /\ http' = Append(http, Req("get-daily-gain.json",
                                     rg[key][1] \o ".." \o rg[key][2],
                                     reply.http_ok))
         /\ replies' = (key :> reply) @@ replies
         /\ pc' = AfterFetch(r.raised, it)
         /\ IF r.raised
            THEN /\ results' = (key :> NoResult) @@ results
                 /\ UNCHANGED <<rows, roi_simple, roi_comp>>
            ELSE /\ rows' = r.rows
                 /\ roi_simple' = sum_simple_pct(r.rows)
                 /\ roi_comp' = sum_compound_pct(r.rows)
                 /\ results' =
                        (key :> [none |-> FALSE,
                                 simple |-> sum_simple_pct(r.rows),
                                 compound |-> sum_compound_pct(r.rows),
                                 n |-> Len(r.rows)]) @@ results
    /\ it' = it + 1
    /\ UNCHANGED <<env, today, session, accounts, acc_id, acc_meta, roi_all, rg,
                   msg, exc, raising, exitStatus>>

\* lines 203-220
ComposeReport ==
    /\ pc = "compose"
    /\ msg' = ReportLines(acc_meta, acc_id, today, results, roi_all)
    /\ pc' = "send"
    /\ UNCHANGED <<env, today, session, accounts, acc_id, acc_meta, roi_all, rg,
                   results, rows, roi_simple, roi_comp, exc, it, raising,
                   exitStatus, replies, calls, http>>

\* line 222
SendReport ==
    /\ pc = "send"
    /\ \E outcome \in PostOutcomes :
         LET r == telegram_send(env, outcome) IN
         /\ calls' = Append(calls, Call("telegram_send", "report", ~r.raised))
         /\ http' = IF r.posted
                    THEN Append(http, Req("sendMessage", "report", outcome = "ok"))
                    ELSE http
         /\ exc' = IF r.raised THEN "telegram" ELSE exc
         /\ pc' = IF r.raised THEN "except" ELSE "finally"
    /\ UNCHANGED <<env, today, session, accounts, acc_id, acc_meta, roi_all, rg,
                   results, rows, roi_simple, roi_comp, msg, it, raising,
                   exitStatus, replies>>

\* lines 224-230: the error is logged and reported, best effort
FatalNotify ==
    /\ pc = "except"
    /\ \E outcome \in PostOutcomes :
         LET r == telegram_send(env, outcome) IN
         /\ calls' = Append(calls, Call("telegram_send", "error", ~r.raised))
         /\ http' = IF r.posted
                    THEN Append(http, Req("sendMessage", "error", outcome = "ok"))
                    ELSE http
    /\ pc' = "sys.exit"
    /\ UNCHANGED <<env, today, session, accounts, acc_id, acc_meta, roi_all, rg,
                   results, rows, roi_simple, roi_comp, msg, exc, it, raising,
                   exitStatus, replies>>

\* line 231: sys.exit(1). The module never imports sys, so evaluating the
\* name raises NameError, which leaves main() through the finally clause.
ExitException == "NameError"

\* variant: the process is ended on the spot (os._exit), skipping finally
FatalExitHard ==
    /\ pc = "sys.exit"
    /\ raising' = "SystemExit"
    /\ pc' = "exit"
    /\ UNCHANGED <<env, today, session, accounts, acc_id, acc_meta, roi_all, rg,
                   results, rows, roi_simple, roi_comp, msg, exc, it,
                   exitStatus, replies, calls, http>>

FatalExit ==
    /\ pc = "sys.exit"
    /\ raising' = ExitException
    /\ pc' = "finally"
    /\ UNCHANGED <<env, today, session, accounts, acc_id, acc_meta, roi_all, rg,
                   results, rows, roi_simple, roi_comp, msg, exc, it,
                   exitStatus, replies, calls, http>>

\* lines 232-234 (and myfx_logout, lines 68-72)
Finally ==
    /\ pc = "finally"
    /\ IF Truthy(session)
       THEN \E ok \in BOOLEAN :
              /\ calls' = Append(calls, Call("myfx_logout", "", TRUE))
              /\ http' = Append(http, Req("logout.json", session, ok))
       ELSE UNCHANGED <<calls, http>>
    /\ pc' = "exit"
    /\ UNCHANGED <<env, today, session, accounts, acc_id, acc_meta, roi_all, rg,
                   results, rows, roi_simple, roi_comp, msg, exc, it, raising,
                   exitStatus, replies>>

\* the interpreter ends: status 0 when main() returned, 1 when an exception
\* (NameError as well as SystemExit(1)) left it
\* variant: the exception is swallowed and the process ends normally
StatusSwallowed(raised) == 0

StatusOf(raised) == IF raised = "" THEN 0 ELSE 1

ProcessExit ==
    /\ pc = "exit"
    /\ exitStatus' = StatusOf(raising)
    /\ pc' = "done"
    /\ UNCHANGED <<env, today, session, accounts, acc_id, acc_meta, roi_all, rg,
                   results, rows, roi_simple, roi_comp, msg, exc, it, raising,
                   replies, calls, http>>

Next ==
    \/ Login
    \/ GetAccounts
    \/ PickAccount
    \/ FetchPeriod
    \/ ComposeReport
    \/ SendReport
    \/ FatalNotify
    \/ FatalExit
    \/ Finally
    \/ ProcessExit

Spec == Init /\ [][Next]_vars

---------------------------------------------------------------------------
(* The sum functions on their own *)

SumValues == {Absent, Text, Num(-100), Num(-20), Num(-1), Num(0), Num(1), Num(50)}

SumRows ==
    {Row(v, Absent) : v \in SumValues}
    \cup {Row(Absent, Num(2)), Row(Null, Num(2)), NotADict}

SumInputs == UNION {[1..n -> SumRows] : n \in 0..MaxRows}

InitSum ==
    /\ pc = "call"
    /\ env \in {e \in Envs : e.EMAIL = "e" /\ e.PREF_ACC_ID = "" /\ e.BOT_TOKEN = "b"
                             /\ e.PASSWORD = "p" /\ e.CHAT_ID = "c"}
    /\ today \in {Date(FirstYear, 3, 15)}
    /\ rows \in SumInputs
    /\ session = NoneS
    /\ accounts = << >>
    /\ acc_id = ""
    /\ acc_meta = NoAccount
    /\ roi_all = NoneF
    /\ rg = << >>
    /\ results = << >>
    /\ roi_simple = Flt(0)
    /\ roi_comp = Flt(0)
    /\ msg = << >>
    /\ exc = ""
    /\ it = 1
    /\ raising = ""
    /\ exitStatus = -1
    /\ replies = << >>
    /\ calls = << >>
    /\ http = << >>

\* lines 192-193 applied to the given rows
SumCall ==
    /\ pc = "call"
    /\ roi_simple' = sum_simple_pct(rows)
    /\ roi_comp' = sum_compound_pct(rows)
    /\ pc' = "returned"
    /\ UNCHANGED <<env, today, session, accounts, acc_id, acc_meta, roi_all, rg,
                   results, rows, msg, exc, it, raising, exitStatus, replies,
                   calls, http>>

NextSum == SumCall

SpecSum == InitSum /\ [][NextSum]_vars

---------------------------------------------------------------------------
(* ranges_today_week_month on its own *)

InitRanges ==
    /\ pc = "call"
    /\ env \in {e \in Envs : e.EMAIL = "e" /\ e.PREF_ACC_ID = "" /\ e.BOT_TOKEN = "b"
                             /\ e.PASSWORD = "p" /\ e.CHAT_ID = "c"}
    /\ today \in Dates
    /\ Blank

\* line 186
RangesCall ==
    /\ pc = "call"
    /\ rg' = ranges_today_week_month(today)
    /\ pc' = "returned"
    /\ UNCHANGED <<env, today, session, accounts, acc_id, acc_meta, roi_all,
                   results, rows, roi_simple, roi_comp, msg, exc, it, raising,
                   exitStatus, replies, calls, http>>

NextRanges == RangesCall

SpecRanges == InitRanges /\ [][NextRanges]_vars

---------------------------------------------------------------------------
(* Vocabulary of the properties *)

CallsOf(fn, arg) ==
    {i \in 1..Len(calls) : calls[i].fn = fn /\ calls[i].arg = arg}

Failed(fn, arg) == \E i \in CallsOf(fn, arg) : ~calls[i].ok
Succeeded(fn, arg) == \E i \in CallsOf(fn, arg) : calls[i].ok

Requests(url) == {i \in 1..Len(http) : http[i].url = url}

Periods == {"day", "week", "month"}

LabelOf(key) ==
    CASE key = "day" -> "Day" [] key = "week" -> "Week" [] key = "month" -> "Month"

\* the text the report shows under a label ("" when there is no such line)
Shown(label) ==
    IF \E i \in 1..Len(msg) : msg[i].label = label
    THEN msg[CHOOSE i \in 1..Len(msg) : msg[i].label = label].text
    ELSE ""

Composed == msg # << >>

\* the run failed before the report: login, account list or account choice
FailedEarly ==
    \/ Failed("myfx_login", "")
    \/ Failed("myfx_get_accounts", "")
    \/ Failed("pick_account", "")

InFatalPath == pc \in {"except", "sys.exit"} \/ exc # "" \/ raising # ""

---------------------------------------------------------------------------
\* C1: a failing daily-gain fetch of any subset of day, week, month never
\* aborts the run: the other periods are still fetched and computed, and
\* the report shows N/A for exactly the failed periods and the compounded
\* percentage of the returned rows for every period whose fetch succeeded.
C1_PartialFailureIsolation ==
    /\ (\E k \in Periods : Failed("myfx_daily_gain", k)) => ~InFatalPath
    /\ Composed =>
         \A k \in Periods :
            /\ Cardinality(CallsOf("myfx_daily_gain", k)) = 1
            /\ Failed("myfx_daily_gain", k) <=> Shown(LabelOf(k)) = "N/A"
            /\ Succeeded("myfx_daily_gain", k) =>
                 Shown(LabelOf(k)) =
                     fmt_pct(SomeF(sum_compound_pct(replies[k].list)))

C1_Witness ==
    /\ pc = "done"
    /\ exitStatus = 0
    /\ Failed("myfx_daily_gain", "week")
    /\ Succeeded("myfx_daily_gain", "day")
    /\ Succeeded("myfx_daily_gain", "month")
    /\ Shown("Week") = "N/A"
    /\ Shown("Day") = "+2.01%"
    /\ Shown("Month") = "-2.00%"

\* C2: when login (missing credentials included), the account list or the
\* account choice fails, no daily gain is fetched and no report is composed
\* or sent; telegram_send is called with the error before the process ends,
\* and the process ends with a non-zero status.
C2_FatalPath ==
    /\ FailedEarly =>
         /\ \A k \in Periods : CallsOf("myfx_daily_gain", k) = {}
         /\ Requests("get-daily-gain.json") = {}
         /\ ~Composed
         /\ CallsOf("telegram_send", "report") = {}
         /\ pc \in {"except", "sys.exit", "finally", "exit", "done"}
         /\ pc \in {"sys.exit", "finally", "exit", "done"} =>
                CallsOf("telegram_send", "error") # {}
         /\ pc = "done" => exitStatus # 0
    /\ ((env.EMAIL = "" \/ env.PASSWORD = "") /\ pc # "login") =>
         /\ Failed("myfx_login", "")
         /\ Requests("login.json") = {}

C2_Witness ==
    /\ pc = "done"
    /\ exitStatus = 1
    /\ Failed("pick_account", "")
    /\ CallsOf("telegram_send", "error") # {}

\* a row the sums can use: a dict whose "value" (or, without it, "gain") is
\* a number
Usable(r) ==
    /\ r.isdict
    /\ \/ r.value.t = "num"
       \/ r.value.t = "absent" /\ r.gain.t = "num"

\* C3: when the daily-gain call of a period succeeds without any usable
\* sample (an empty list, or rows whose value is missing or no number), the
\* report shows N/A for that period.
C3_NoUsableValueIsNA ==
    Composed =>
        \A k \in Periods :
            (/\ Succeeded("myfx_daily_gain", k)
             /\ \A i \in 1..Len(replies[k].list) : ~Usable(replies[k].list[i]))
            => Shown(LabelOf(k)) = "N/A"

\* C4: telegram_send never raises: whatever the outcome of the POST, main()
\* goes on to the success path and ends with status 0, and without a bot
\* token or chat id no request is sent at all.
C4_NotifierNeverPropagates ==
    /\ \A i \in 1..Len(calls) : calls[i].fn = "telegram_send" => calls[i].ok
    /\ CallsOf("telegram_send", "report") # {} =>
         /\ Composed
         /\ ~InFatalPath
         /\ pc \in {"finally", "exit", "done"}
         /\ pc = "done" => exitStatus = 0
    /\ (env.BOT_TOKEN = "" \/ env.CHAT_ID = "") => Requests("sendMessage") = {}
    /\ (env.BOT_TOKEN # "" /\ env.CHAT_ID # "") =>
         Cardinality(Requests("sendMessage")) =
             Cardinality(CallsOf("telegram_send", "report"))
             + Cardinality(CallsOf("telegram_send", "error"))

C4_Witness ==
    /\ pc = "done"
    /\ exitStatus = 0
    /\ \E i \in Requests("sendMessage") : ~http[i].ok /\ http[i].arg = "report"
    /\ Composed

\* C5: the all-time figure is the selected account's own gain field: from
\* the choice of the account on it is that number whatever the daily-gain
\* fetches return, and the report shows N/A exactly when the field is
\* missing or no number (a gain of 0 is shown as a percentage).
C5_AllTimePassThrough ==
    /\ (pc \in {"loop", "compose", "send", "finally", "exit", "done"} /\ ~FailedEarly) =>
         /\ acc_meta.gain.t = "num" => roi_all = SomeF(Flt(acc_meta.gain.v))
         /\ acc_meta.gain.t # "num" => roi_all = NoneF
    /\ Composed =>
         /\ Shown("All") = "N/A" <=> acc_meta.gain.t # "num"
         /\ acc_meta.gain.t = "num" =>
              Shown("All") = fmt_pct(SomeF(Flt(acc_meta.gain.v)))

C5_Witness ==
    /\ Composed
    /\ acc_meta.gain = Num(0)
    /\ Shown("All") = "+0.00%"
    /\ Failed("myfx_daily_gain", "day")
    /\ Succeeded("myfx_daily_gain", "week")

---------------------------------------------------------------------------
(* The compounding law *)

RECURSIVE Pow100(_)
Pow100(n) == IF n = 0 THEN 1 ELSE 100 * Pow100(n - 1)

\* the product of (100 + p_i), the p_i being whole percentages
RECURSIVE Growth(_, _)
Growth(rs, i) ==
    IF i > Len(rs) THEN 1 ELSE (100 + RowPct(rs[i]).n) * Growth(rs, i + 1)

\* (prod (1 + p_i/100) - 1) * 100 = (prod (100 + p_i) - 100^n) / 100^(n-1)
ClosedForm(rs) ==
    IF Len(rs) = 0 THEN Flt(0)
    ELSE Norm(Growth(rs, 1) - Pow100(Len(rs)), Pow100(Len(rs) - 1))

Orderings(n) ==
    {f \in [1..n -> 1..n] : \A i, j \in 1..n : f[i] = f[j] => i = j}

NonZero(rs) == {i \in 1..Len(rs) : RowPct(rs[i]).n # 0}

CompoundLaw ==
    /\ roi_comp = ClosedForm(rows)
    /\ rows = << >> => roi_comp = Flt(0)
    /\ rows = <<Row(Num(1), Absent), Row(Num(1), Absent)>> =>
         roi_comp = [n |-> 201, d |-> 100]
    /\ \A f \in Orderings(Len(rows)) :
         sum_compound_pct([i \in 1..Len(rows) |-> rows[f[i]]]) = roi_comp

\* C6 as stated: the result is the closed form, 0 for the empty list, 2.01
\* for [1, 1], independent of the order, and different from the simple sum
\* whenever two or more samples are non-zero.
C6_CompoundLawAsStated ==
    pc = "returned" =>
        /\ CompoundLaw
        /\ Cardinality(NonZero(rows)) >= 2 => roi_comp # roi_simple

\* C6, amended: the result is the closed form, 0 for the empty list, 2.01
\* for [1, 1], independent of the order, and different from the simple sum
\* whenever exactly two samples are non-zero.
C6_CompoundLaw ==
    pc = "returned" =>
        /\ CompoundLaw
        /\ Cardinality(NonZero(rows)) = 2 => roi_comp # roi_simple

C6_Witness ==
    /\ pc = "returned"
    /\ rows = <<Row(Num(1), Absent), Row(Num(1), Absent)>>
    /\ roi_comp = [n |-> 201, d |-> 100]
    /\ roi_simple = Flt(2)
    /\ fmt_pct(SomeF(roi_comp)) = "+2.01%"

---------------------------------------------------------------------------
(* The period windows *)

\* 1 January 2024 was a Monday
IsMonday(dt) == (ToOrdinal(dt) - ToOrdinal(Date(2024, 1, 1))) % 7 = 0

DaysBack(k) == FromOrdinal(ToOrdinal(today) - k)

\* C7: the day range is (d, d); the week range starts at the Monday on or
\* before d, at most 6 days back and d itself on a Monday; the month range
\* starts at day 1 of d's month; every range ends at d and starts no later
\* than d.
C7_PeriodWindows ==
    pc = "returned" =>
        /\ DOMAIN rg = Periods
        /\ rg["day"] = <<dd(today), dd(today)>>
        /\ \A k \in Periods : rg[k][2] = dd(today)
        /\ \E k \in 0..6 :
              /\ rg["week"][1] = dd(DaysBack(k))
              /\ IsMonday(DaysBack(k))
        /\ IsMonday(today) => rg["week"][1] = dd(today)
        /\ rg["month"][1] = dd(Date(today.year, today.month, 1))
        /\ \E k \in 0..30 :
              /\ rg["month"][1] = dd(DaysBack(k))
              /\ DaysBack(k).day = 1
              /\ DaysBack(k).month = today.month

C7_Witness ==
    /\ pc = "returned"
    /\ \E k \in 1..6 :
          /\ rg["week"][1] = dd(DaysBack(k))
          /\ DaysBack(k).year < today.year
    /\ rg["month"][1] # rg["week"][1]
    /\ rg["day"][1] # rg["month"][1]

---------------------------------------------------------------------------
\* C8: in every report the period results appear once each, in the order
\* day, week, month, all, whichever fetches failed.
C8_ReportOrder ==
    Composed =>
        LET figures == SelectSeq(msg, LAMBDA l : l.label \in {"Day", "Week", "Month", "All"})
        IN  /\ Len(figures) = 4
            /\ figures[1].label = "Day"
            /\ figures[2].label = "Week"
            /\ figures[3].label = "Month"
            /\ figures[4].label = "All"
            /\ SubSeq(msg, Len(msg) - 3, Len(msg)) = figures

C8_Witness ==
    /\ pc = "done"
    /\ Composed
    /\ Failed("myfx_daily_gain", "day")
    /\ Succeeded("myfx_daily_gain", "week")
    /\ Failed("myfx_daily_gain", "month")
    /\ msg[Len(msg) - 3].label = "Day"
    /\ msg[Len(msg)].label = "All"

\* C9: when login returned a session, logout is called exactly once, after
\* every other provider call and the notification, on the success path and
\* on every fatal path; when login failed it is never called; and a failing
\* logout request does not change how the run ends.
C9_SessionRelease ==
    LET outs == CallsOf("myfx_logout", "")
    IN  /\ Cardinality(outs) <= 1
        /\ outs # {} =>
             /\ Len(calls) \in outs
             /\ Succeeded("myfx_login", "")
             /\ pc \in {"exit", "done"}
             /\ \A i \in outs : calls[i].ok
        /\ ~Succeeded("myfx_login", "") => outs = {}
        /\ (pc \in {"exit", "done"} /\ Succeeded("myfx_login", "")) =>
             /\ Cardinality(outs) = 1
             /\ Cardinality(Requests("logout.json")) = 1
             /\ \/ CallsOf("telegram_send", "report") # {}
                \/ CallsOf("telegram_send", "error") # {}
        /\ pc = "done" => (exitStatus = 0 <=> ~FailedEarly)

C9_Witness ==
    /\ pc = "done"
    /\ exitStatus = 1
    /\ Failed("myfx_get_accounts", "")
    /\ \E i \in Requests("logout.json") : ~http[i].ok
    /\ calls[Len(calls)].fn = "myfx_logout"

\* C10: a run calls telegram_send at most once, with the report or with the
\* error, never both: once the report was handed to telegram_send the run
\* is not on the fatal path, and the error is only sent when no report was.
C10_OneNotification ==
    /\ Cardinality(CallsOf("telegram_send", "report"))
       + Cardinality(CallsOf("telegram_send", "error")) <= 1
    /\ CallsOf("telegram_send", "report") # {} => ~InFatalPath
    /\ CallsOf("telegram_send", "error") # {} =>
         /\ CallsOf("telegram_send", "report") = {}
         /\ FailedEarly
    /\ pc = "done" =>
         Cardinality(CallsOf("telegram_send", "report"))
         + Cardinality(CallsOf("telegram_send", "error")) = 1

C10_Witness ==
    /\ pc = "done"
    /\ CallsOf("telegram_send", "error") # {}
    /\ CallsOf("telegram_send", "report") = {}
    /\ Requests("sendMessage") # {}

=============================================================================
